---- MODULE Spec2Model ----
(***************************************************************************)
(* Page layout and text wrapping of the flash-card PDF generator           *)
(* (src/src/main.rs).                                                      *)
(*                                                                         *)
(* Lengths are integers in hundredths of a millimetre, so every f32 length *)
(* of the layout (5.0, 50.0, 71.75, 51.75, 7.0, ...) is represented        *)
(* exactly; the one inexact f32 computation, max_chars of wrap_text, is    *)
(* carried out in f32.  A text is a sequence of chars, each char its       *)
(* Unicode scalar value (97 for 'a', 32 for ' ', 13 for '\r').             *)
(***************************************************************************)
EXTENDS Integers, Sequences, FiniteSets, TLC

VARIABLES
    cards,        \* generate_pdf: the card slice it is given
    pc,           \* generate_pdf: position in the function
    total_pages,  \* generate_pdf: local total_pages
    sheet_idx,    \* generate_pdf: loop variable
    pages,        \* the PdfDocument being built: its pages, in order
    saved,        \* the pages written by doc.save, <<>> before
    w_pc,         \* wrap_text driver: position
    w_text,       \* wrap_text driver: argument text
    w_font_size,  \* wrap_text driver: argument font_size (pt)
    w_span,       \* wrap_text driver: argument available_height_mm
    w_lines,      \* wrap_text driver: result of the first call
    w_again       \* wrap_text driver: result of wrapping the joined lines

vars == <<cards, pc, total_pages, sheet_idx, pages, saved,
          w_pc, w_text, w_font_size, w_span, w_lines, w_again>>

pdf_vars == <<cards, pc, total_pages, sheet_idx, pages, saved>>
wrap_vars == <<w_pc, w_text, w_font_size, w_span, w_lines, w_again>>

(***************************************************************************)
(* Constants of the program (lengths x100).                                *)
(***************************************************************************)
GRID_COLS == 4
GRID_ROWS == 4
CARDS_PER_PAGE == GRID_COLS * GRID_ROWS

A4_WIDTH_MM == 21000
A4_HEIGHT_MM == 29700
MARGIN_MM == 500

CARD_WIDTH_MM == (A4_WIDTH_MM - 2 * MARGIN_MM) \div GRID_COLS
CARD_HEIGHT_MM == (A4_HEIGHT_MM - 2 * MARGIN_MM) \div GRID_ROWS

TEXT_MARGIN_MM == 1000

font_size == 18
line_spacing_mm == 700
ROTATE_DEG == -90

(***************************************************************************)
(* Bounds of the model.                                                    *)
(***************************************************************************)
MaxCards == 33       \* decks of 0..MaxCards cards (three sheets at 33)
MaxLen == 5          \* wrap_text driver: texts of up to MaxLen characters
MaxSpanSteps == 5    \* wrap_text driver: spans 0, 4mm, ..., 4mm * MaxSpanSteps

(***************************************************************************)
(* wrap_text                                                               *)
(***************************************************************************)
\* char::is_whitespace: the Unicode White_Space characters U+0009..U+000D,
\* U+0020, U+0085, U+00A0, U+1680, U+2000..U+200A, U+2028, U+2029, U+202F,
\* U+205F and U+3000
is_whitespace(c) ==
    \/ c \in 9..13
    \/ c \in {32, 133, 160, 5760}
    \/ c \in 8192..8202
    \/ c \in {8232, 8233, 8239, 8287, 12288}

\* char::len_utf8
len_utf8(c) ==
    IF c < 128 THEN 1
    ELSE IF c < 2048 THEN 2
    ELSE IF c < 65536 THEN 3
    ELSE 4

\* str::len: the length of the text's UTF-8 encoding in bytes
RECURSIVE str_len_from(_, _)
str_len_from(text, i) ==
    IF i > Len(text) THEN 0 ELSE len_utf8(text[i]) + str_len_from(text, i + 1)

str_len(text) == str_len_from(text, 1)

\* str::split_whitespace: the maximal runs of non-whitespace characters
RECURSIVE split_from(_, _, _, _)
split_from(text, i, word, words) ==
    IF i > Len(text)
    THEN IF word = <<>> THEN words ELSE Append(words, word)
    ELSE IF is_whitespace(text[i])
         THEN split_from(text, i + 1, <<>>,
                         IF word = <<>> THEN words ELSE Append(words, word))
         ELSE split_from(text, i + 1, Append(word, text[i]), words)

split_whitespace(text) == split_from(text, 1, <<>>, <<>>)

(***************************************************************************)
(* f32 arithmetic of wrap_text.  An f32 is a record [m, e] standing for    *)
(* m * 2^e with 2^23 <= m < 2^24 (or m = 0); every operation rounds to     *)
(* nearest, ties to even, as IEEE 754 does.                                *)
(***************************************************************************)
\* q (with remainder r of a division by den) doubled until it has 24 bits
RECURSIVE f32_normalize(_, _, _, _)
f32_normalize(q, r, den, e) ==
    IF q >= 2^23
    THEN [q |-> q, r |-> r, e |-> e]
    ELSE LET bit == IF 2 * r >= den THEN 1 ELSE 0
         IN  f32_normalize(2 * q + bit, 2 * r - bit * den, den, e - 1)

\* q + r / den rounded to the nearest integer, ties to even, times 2^e
f32_round(q, r, den, e) ==
    LET up == IF 2 * r > den \/ (2 * r = den /\ q % 2 = 1) THEN 1 ELSE 0
    IN  IF q + up = 2^24
        THEN [m |-> 2^23, e |-> e + 1]
        ELSE [m |-> q + up, e |-> e]

\* the f32 nearest to num / den (0 <= num, 0 < den, num / den < 2^24): a
\* decimal literal of the source, or a length given in hundredths of a mm
f32_of_ratio(num, den) ==
    IF num = 0
    THEN [m |-> 0, e |-> 0]
    ELSE LET n == f32_normalize(num \div den, num % den, den, 0)
         IN  f32_round(n.q, n.r, den, n.e)

\* the number of low bits to drop from p to leave 24
RECURSIVE f32_excess_bits(_)
f32_excess_bits(p) == IF p < 2^24 THEN 0 ELSE 1 + f32_excess_bits(p \div 2)

\* k * x as f32, for a whole number 1 <= k < 128
f32_times(k, x) ==
    LET p == k * x.m
        s == f32_excess_bits(p)
    IN  f32_round(p \div 2^s, p % 2^s, 2^s, x.e + s)

\* x / 2 as f32 (exact)
f32_half(x) == [m |-> x.m, e |-> x.e - 1]

\* floor(log2(n)), n >= 1
RECURSIVE ilog2(_)
ilog2(n) == IF n < 2 THEN 0 ELSE 1 + ilog2(n \div 2)

\* q + r / den doubled `steps` times, as quotient and remainder
RECURSIVE f32_long_div(_, _, _, _)
f32_long_div(q, r, den, steps) ==
    IF steps = 0
    THEN [q |-> q, r |-> r]
    ELSE LET bit == IF 2 * r >= den THEN 1 ELSE 0
         IN  f32_long_div(2 * q + bit, 2 * r - bit * den, den, steps - 1)

\* (s / w) as usize for f32 s >= 0 and w > 0 with s / w < 2^23: the f32
\* quotient, truncated.  The f32 quotient of a real quotient in [n, n + 1) is
\* n + 1 exactly when the real quotient is within half a unit in the last
\* place of n + 1, and then the cast gives n + 1.
f32_div_as_usize(s, w) ==
    IF s.m = 0 \/ s.e < w.e
    THEN 0
    ELSE LET d == f32_long_div(s.m \div w.m, s.m % w.m, w.m, s.e - w.e)
             n == d.q
         IN  IF n >= 1 /\ w.m - d.r <= w.m \div 2^(24 - ilog2(n))
             THEN n + 1
             ELSE n

\* avg_char_width_mm = font_size * 0.5 * 0.3528, font_size a whole number of
\* points from 1 to 127
avg_char_width_mm(fs) == f32_half(f32_times(fs, f32_of_ratio(3528, 10000)))

max_chars_loose(fs, available_height_mm) ==
    IF available_height_mm <= 0
    THEN 0
    ELSE f32_div_as_usize(f32_of_ratio(available_height_mm, 100),
                          avg_char_width_mm(fs)) + 1

\* (available_height_mm / avg_char_width_mm) as usize: the f32 quotient
\* truncated, a negative quotient saturating to 0.  available_height_mm is in
\* hundredths of a millimetre.
max_chars(fs, available_height_mm) ==
    IF available_height_mm <= 0
    THEN 0
    ELSE f32_div_as_usize(f32_of_ratio(available_height_mm, 100),
                          avg_char_width_mm(fs))

test_line_glued(current_line, word) == current_line \o word

\* the candidate line: the word alone, or format!("{} {}", current_line, word)
test_line(current_line, word) ==
    IF current_line = <<>>
    THEN word
    ELSE current_line \o <<32>> \o word

fits_strict(line, max) == str_len(line) < max

\* test_line.len() <= max_chars
fits(line, max) == str_len(line) <= max

\* the loop over the words, from word k on
RECURSIVE pack(_, _, _, _, _)
pack(words, k, current_line, lines, max) ==
    IF k > Len(words)
    THEN IF current_line # <<>> THEN Append(lines, current_line) ELSE lines
    ELSE LET word == words[k]
             t == test_line(current_line, word)
         IN  IF fits(t, max)
             THEN pack(words, k + 1, t, lines, max)
             ELSE pack(words, k + 1, word,
                       IF current_line # <<>>
                       THEN Append(lines, current_line)
                       ELSE lines,
                       max)

finish_bare(lines, text) == lines

\* the function's last expression: the text itself when no line was made
finish(lines, text) == IF lines = <<>> THEN <<text>> ELSE lines

wrap_text(text, fs, available_height_mm) ==
    LET max == max_chars(fs, available_height_mm)
    IN  IF str_len(text) <= max
        THEN <<text>>
        ELSE finish(pack(split_whitespace(text), 1, <<>>, <<>>, max), text)

(***************************************************************************)
(* Driver of wrap_text: one call on a text, then one call on its lines     *)
(* joined by single spaces, with the same font size and span.              *)
(***************************************************************************)
\* the chars of a text written with lower-case letters and spaces
Lower == <<"a", "b", "c", "d", "e", "f", "g", "h", "i", "j", "k", "l", "m",
           "n", "o", "p", "q", "r", "s", "t", "u", "v", "w", "x", "y", "z">>

CharOf(ch) == IF ch = " " THEN 32 ELSE 96 + (CHOOSE i \in 1..26 : Lower[i] = ch)

Chars(str) == [i \in 1..Len(str) |-> CharOf(str[i])]

\* 'a', U+00E9 (two bytes in UTF-8), ' ' and '\r'
Alphabet == {97, 233, 32, 13}

TextsOfLen(n) == [1..n -> Alphabet]

ScenarioText ==
    Chars(<<"a", " ", "b", " ", "c", " ", "d", " ", "e", " ", "f", " ", "g">>)

WrapTexts == (UNION {TextsOfLen(n) : n \in 0..MaxLen}) \cup {ScenarioText}

WrapFontSizes == {18, 25}

\* multiples of 4 mm, and 4.41 mm and 22.05 mm: one and five character
\* widths at 25 pt, where the f32 quotient falls just below 1 and 5
WrapSpans == {k * 400 : k \in 0..MaxSpanSteps} \cup {441, 2205}

RECURSIVE join_from(_, _)
join_from(lines, i) ==
    IF i > Len(lines) THEN <<>>
    ELSE IF i = Len(lines) THEN lines[i]
    ELSE lines[i] \o <<32>> \o join_from(lines, i + 1)

join_spaces(lines) == join_from(lines, 1)

WrapInit ==
    /\ w_pc = "input"
    /\ w_text \in WrapTexts
    /\ w_font_size \in WrapFontSizes
    /\ w_span \in WrapSpans
    /\ w_lines = <<>>
    /\ w_again = <<>>
    /\ cards = <<>>
    /\ pc = "off"
    /\ total_pages = 0
    /\ sheet_idx = 0
    /\ pages = <<>>
    /\ saved = <<>>

Wrap ==
    /\ w_pc = "input"
    /\ w_lines' = wrap_text(w_text, w_font_size, w_span)
    /\ w_pc' = "wrapped"
    /\ UNCHANGED <<w_text, w_font_size, w_span, w_again>>
    /\ UNCHANGED pdf_vars

Rewrap ==
    /\ w_pc = "wrapped"
    /\ w_again' = wrap_text(join_spaces(w_lines), w_font_size, w_span)
    /\ w_pc' = "rewrapped"
    /\ UNCHANGED <<w_text, w_font_size, w_span, w_lines>>
    /\ UNCHANGED pdf_vars

WrapNext == Wrap \/ Rewrap

WrapSpec == WrapInit /\ [][WrapNext]_vars

(***************************************************************************)
(* draw_card_grid                                                          *)
(***************************************************************************)
grid_cell_unmirrored(idx, is_front) == <<idx % GRID_COLS, idx \div GRID_COLS>>

\* (col, row) of in-sheet index idx: natural order on the front, columns
\* reversed on the back
grid_cell(idx, is_front) ==
    IF is_front
    THEN <<idx % GRID_COLS, idx \div GRID_COLS>>
    ELSE LET original_col == idx % GRID_COLS
             original_row == idx \div GRID_COLS
         IN  <<GRID_COLS - 1 - original_col, original_row>>

\* x = margin_mm + col * card_width_mm
cell_x(col) == MARGIN_MM + col * CARD_WIDTH_MM

\* y = A4_HEIGHT_MM - margin_mm - (row + 1) * card_height_mm
cell_y(row) == A4_HEIGHT_MM - MARGIN_MM - (row + 1) * CARD_HEIGHT_MM

\* the closed four-point Line handed to add_line
border(x, y) ==
    [op |-> "add_line",
     points |-> << <<x, y>>,
                   <<x + CARD_WIDTH_MM, y>>,
                   <<x + CARD_WIDTH_MM, y + CARD_HEIGHT_MM>>,
                   <<x, y + CARD_HEIGHT_MM>> >>,
     is_closed |-> TRUE]

card_text_side_a(card, is_front) == card.side_a

\* text = if is_front { &card.side_a } else { &card.side_b }
card_text(card, is_front) == IF is_front THEN card.side_a ELSE card.side_b

available_height_full == CARD_HEIGHT_MM

\* available_height = card_height_mm - 2.0 * TEXT_MARGIN_MM
available_height == CARD_HEIGHT_MM - 2 * TEXT_MARGIN_MM

\* one text section per line: line i (from 0) at text_x - i * line_spacing_mm
text_sections(lines, text_x, text_y) ==
    [n \in 1..Len(lines) |->
        [op |-> "write_text",
         text |-> lines[n],
         x |-> text_x - (n - 1) * line_spacing_mm,
         y |-> text_y,
         rotate |-> ROTATE_DEG,
         size |-> font_size]]

\* the body of the loop for one card: its border, then its text lines
draw_card(card, idx, is_front) ==
    LET cell == grid_cell(idx, is_front)
        x == cell_x(cell[1])
        y == cell_y(cell[2])
        lines == wrap_text(card_text(card, is_front), font_size, available_height)
        text_x == x + CARD_WIDTH_MM \div 2
        text_y == y + CARD_HEIGHT_MM - TEXT_MARGIN_MM
    IN  <<border(x, y)>> \o text_sections(lines, text_x, text_y)

\* the loop over cards.iter().enumerate(), from position n (idx = n - 1) on.
\* Every element of the slice is Some: generate_pdf builds it from indices
\* below cards.len().
RECURSIVE draw_from(_, _, _)
draw_from(sheet, n, is_front) ==
    IF n > Len(sheet) THEN <<>>
    ELSE draw_card(sheet[n], n - 1, is_front) \o draw_from(sheet, n + 1, is_front)

\* the operations draw_card_grid adds to the page's layer
draw_card_grid(sheet, is_front) == draw_from(sheet, 1, is_front)

(***************************************************************************)
(* generate_pdf                                                            *)
(***************************************************************************)
total_sheets_floor(n) == n \div CARDS_PER_PAGE

\* total_sheets = (cards.len() + CARDS_PER_PAGE - 1) / CARDS_PER_PAGE
total_sheets(n) == (n + CARDS_PER_PAGE - 1) \div CARDS_PER_PAGE

\* total_pages = total_sheets * 2, then two more when that is odd
even_pages(n) ==
    LET tp == total_sheets(n) * 2
    IN  IF tp % 2 = 0 THEN tp ELSE tp + 2

Min(a, b) == IF a <= b THEN a ELSE b

\* the cards at start_idx .. end_idx - 1
sheet_cards(cs, s) ==
    LET start_idx == s * CARDS_PER_PAGE
        end_idx == Min(start_idx + CARDS_PER_PAGE, Len(cs))
    IN  SubSeq(cs, start_idx + 1, end_idx)

\* a page as PdfDocument::new and add_page make it: one empty layer.  side
\* and sheet record the draw_card_grid call made on the page.
BlankPage == [side |-> "none", sheet |-> -1, ops |-> <<>>]

draw_on(page, s, is_front) ==
    [side |-> IF is_front THEN "front" ELSE "back",
     sheet |-> s,
     ops |-> page.ops \o draw_card_grid(sheet_cards(cards, s), is_front)]

(***************************************************************************)
(* The decks generate_pdf is run on: card k (from 0) has "q<k>" and        *)
(* "a<k>" followed by a tail, so every text of a deck is distinct.         *)
(***************************************************************************)
\* the decimal digits of k, '0' being U+0030
RECURSIVE Digits(_)
Digits(k) ==
    IF k < 10 THEN <<48 + k>>
    ELSE Digits(k \div 10) \o <<48 + (k % 10)>>

LongWord == Chars(<<"x", "x", "x", "x", "x", "x", "x", "x", "x">>)

Tails ==
    << <<>>,
       Chars(<<" ", "c", "a", "t">>),
       Chars(<<" ", "t", "h", "e", " ", "q", "u", "i", "c", "k", " ",
               "b", "r", "o", "w", "n">>),
       <<32>> \o LongWord \o <<32>> \o LongWord \o <<32>> \o LongWord
           \o <<32>> \o LongWord \o <<32>> \o LongWord >>

FlashCard(k, shift) ==
    [side_a |-> Chars(<<"q">>) \o Digits(k)
                    \o Tails[((k + shift) % Len(Tails)) + 1],
     side_b |-> Chars(<<"a">>) \o Digits(k)
                    \o Tails[((k + shift + 1) % Len(Tails)) + 1]]

Deck(n, shift) == [k \in 1..n |-> FlashCard(k - 1, shift)]

Decks == {Deck(n, shift) : n \in 0..MaxCards, shift \in 0..(Len(Tails) - 1)}

Init ==
    /\ cards \in Decks
    /\ pc = "start"
    /\ total_pages = 0
    /\ sheet_idx = 0
    /\ pages = <<>>
    /\ saved = <<>>
    /\ w_pc = "off"
    /\ w_text = <<>>
    /\ w_font_size = font_size
    /\ w_span = 0
    /\ w_lines = <<>>
    /\ w_again = <<>>

\* lines 84-101: the page count, then PdfDocument::new, which makes the
\* document with its first page
NewDocument ==
    /\ pc = "start"
    /\ total_pages' = even_pages(Len(cards))
    /\ pages' = <<BlankPage>>
    /\ sheet_idx' = 0
    /\ pc' = "front"
    /\ UNCHANGED <<cards, saved>>
    /\ UNCHANGED wrap_vars

\* lines 104-127: the front page of sheet sheet_idx, on the document's first
\* page for sheet 0 and on a new page otherwise
FrontPage ==
    /\ pc = "front"
    /\ sheet_idx < total_pages \div 2
    /\ pages' = IF sheet_idx > 0
                THEN Append(pages, draw_on(BlankPage, sheet_idx, TRUE))
                ELSE [pages EXCEPT ![Len(pages)] = draw_on(@, sheet_idx, TRUE)]
    /\ pc' = "back"
    /\ UNCHANGED <<cards, total_pages, sheet_idx, saved>>
    /\ UNCHANGED wrap_vars

\* lines 129-145: the back page of the sheet, always on a new page
BackPage ==
    /\ pc = "back"
    /\ pages' = Append(pages, draw_on(BlankPage, sheet_idx, FALSE))
    /\ sheet_idx' = sheet_idx + 1
    /\ pc' = "front"
    /\ UNCHANGED <<cards, total_pages, saved>>
    /\ UNCHANGED wrap_vars

\* lines 147-152: the loop is over; the document is written
Save ==
    /\ pc = "front"
    /\ sheet_idx >= total_pages \div 2
    /\ saved' = pages
    /\ pc' = "done"
    /\ UNCHANGED <<cards, total_pages, sheet_idx, pages>>
    /\ UNCHANGED wrap_vars

\* lines 148-150: File::create or doc.save fails and generate_pdf returns Err
SaveFails ==
    /\ pc = "front"
    /\ sheet_idx >= total_pages \div 2
    /\ pc' = "failed"
    /\ UNCHANGED <<cards, total_pages, sheet_idx, pages, saved>>
    /\ UNCHANGED wrap_vars

Next == NewDocument \/ FrontPage \/ BackPage \/ Save \/ SaveFails

Spec == Init /\ [][Next]_vars

(***************************************************************************)
(* Properties of wrap_text (specification WrapSpec).                       *)
(***************************************************************************)
\* The words of a text, stated without the splitting loop: a word starts at
\* each non-whitespace character that follows whitespace or begins the text,
\* and runs up to the character before the next whitespace.
WordStarts(s) ==
    {i \in 1..Len(s) : ~is_whitespace(s[i]) /\ (i = 1 \/ is_whitespace(s[i - 1]))}

WordEnd(s, i) ==
    CHOOSE j \in i..Len(s) :
        /\ \A k \in i..j : ~is_whitespace(s[k])
        /\ (j = Len(s) \/ is_whitespace(s[j + 1]))

\* the words from the smallest start in starts on, in order
RECURSIVE WordsFrom(_, _)
WordsFrom(s, starts) ==
    IF starts = {} THEN <<>>
    ELSE LET i == CHOOSE x \in starts : \A y \in starts : x <= y
         IN  <<SubSeq(s, i, WordEnd(s, i))>> \o WordsFrom(s, starts \ {i})

WordRuns(s) == WordsFrom(s, WordStarts(s))

RECURSIVE WordsAcrossFrom(_, _)
WordsAcrossFrom(lines, i) ==
    IF i > Len(lines) THEN <<>>
    ELSE WordRuns(lines[i]) \o WordsAcrossFrom(lines, i + 1)

WordsAcross(lines) == WordsAcrossFrom(lines, 1)

IsSingleWord(line) ==
    line # <<>> /\ \A i \in 1..Len(line) : ~is_whitespace(line[i])

\* maxChars = floor(span / charWidth), charWidth = fontSize * 0.5 * 0.3528 mm:
\* the m with m * charWidth <= span < (m + 1) * charWidth
FloorMaxChars(fs, span) ==
    CHOOSE m \in 0..(span + 1) :
        /\ m * fs * 1764 <= span * 100
        /\ span * 100 < (m + 1) * fs * 1764

WrapMaxChars == FloorMaxChars(w_font_size, w_span)

\* the maxChars the call itself works with
CallMaxChars == max_chars(w_font_size, w_span)

Txt_a_b == Chars(<<"a", " ", "b">>)
Txt_c_d == Chars(<<"c", " ", "d">>)
Txt_e_f == Chars(<<"e", " ", "f">>)
Txt_a_b_c == Chars(<<"a", " ", "b", " ", "c">>)
Txt_d_e_f == Chars(<<"d", " ", "e", " ", "f">>)
Txt_g == Chars(<<"g">>)

\* C5 as stated: "a b c d e f g" at maxChars = 5 wraps into
\* ["a b", "c d", "e f", "g"].
C5_ScenarioAsStated ==
    (w_pc # "input" /\ w_text = ScenarioText /\ CallMaxChars = 5)
        => w_lines = <<Txt_a_b, Txt_c_d, Txt_e_f, Txt_g>>

\* C5 amended: under the greedy rule (append while current line + space +
\* word has length <= maxChars) "a b c d e f g" at maxChars = 5 wraps into
\* ["a b c", "d e f", "g"].
C5_ScenarioGreedy ==
    (w_pc # "input" /\ w_text = ScenarioText /\ CallMaxChars = 5)
        => w_lines = <<Txt_a_b_c, Txt_d_e_f, Txt_g>>

C5_Witness ==
    /\ w_pc = "wrapped"
    /\ w_text = ScenarioText
    /\ CallMaxChars = 5
    /\ Len(w_lines) = 3

\* C6: wrap_text returns at least one line, a single empty line for the empty
\* text, and the words read across the returned lines are exactly the words
\* of the text, in order (no word is split, dropped or merged), also when a
\* word is longer than maxChars.
C6_WordsKept ==
    w_pc # "input" =>
        /\ Len(w_lines) >= 1
        /\ (w_text = <<>> => w_lines = << <<>> >>)
        /\ WordsAcross(w_lines) = WordRuns(w_text)

C6_Witness ==
    /\ w_pc = "wrapped"
    /\ Len(w_lines) >= 2
    /\ \E k \in 1..Len(WordRuns(w_text)) : Len(WordRuns(w_text)[k]) > WrapMaxChars
    /\ \E k \in 1..Len(w_lines) : Len(w_lines[k]) > WrapMaxChars

\* C7: wrapping the lines of wrap_text(text) joined by single spaces, with the
\* same font size and span, returns the same lines.
C7_RewrapStable == w_pc = "rewrapped" => w_again = w_lines

C7_Witness ==
    /\ w_pc = "rewrapped"
    /\ Len(w_lines) >= 2
    /\ join_spaces(w_lines) # w_text
    /\ w_again = w_lines

\* C8 as stated: every returned line has length <= maxChars or is a single
\* word without whitespace (whitespace-only texts included), and at
\* maxChars = 0 every line of a non-empty text is exactly one word.
C8_FitsAsStated ==
    w_pc # "input" =>
        /\ \A k \in 1..Len(w_lines) :
               Len(w_lines[k]) <= WrapMaxChars \/ IsSingleWord(w_lines[k])
        /\ (WrapMaxChars = 0 /\ w_text # <<>>) =>
               \A k \in 1..Len(w_lines) : IsSingleWord(w_lines[k])

\* C8 amended: every returned line has length <= maxChars =
\* floor(span / charWidth) (in bytes, hence in characters too), or is a
\* single word without whitespace, or is a whitespace-only text returned
\* unchanged as the only line; at maxChars = 0, by that formula or as the
\* call computes it, every line of a text that has a word is exactly one word.
C8_FitsOrWordOrBlank ==
    w_pc # "input" =>
        /\ \A k \in 1..Len(w_lines) :
               \/ (str_len(w_lines[k]) <= WrapMaxChars
                      /\ Len(w_lines[k]) <= WrapMaxChars)
               \/ IsSingleWord(w_lines[k])
               \/ (WordStarts(w_text) = {} /\ w_lines = <<w_text>>)
        /\ ((WrapMaxChars = 0 \/ CallMaxChars = 0) /\ WordStarts(w_text) # {}) =>
               /\ Len(w_lines) = Cardinality(WordStarts(w_text))
               /\ \A k \in 1..Len(w_lines) : IsSingleWord(w_lines[k])

C8_Witness ==
    /\ w_pc = "wrapped"
    /\ WrapMaxChars = 0
    /\ Len(w_lines) >= 2
    /\ \A k \in 1..Len(w_lines) : IsSingleWord(w_lines[k])

(***************************************************************************)
(* Properties of generate_pdf and draw_card_grid (specification Spec).     *)
(***************************************************************************)
\* ceil(n / 16): the S with 16 * (S - 1) < n <= 16 * S
CeilSheets(n) == CHOOSE S \in 0..n : 16 * S >= n /\ 16 * (S - 1) < n

\* A page's operations read as cells: each border opens a cell, and the text
\* operations that follow it, up to the next border, are the cell's lines.
\* Text before any border is read as a cell without a border.
RECURSIVE CellsFrom(_, _, _)
CellsFrom(ops, i, cells) ==
    IF i > Len(ops) THEN cells
    ELSE IF ops[i].op = "add_line"
         THEN CellsFrom(ops, i + 1,
                        Append(cells, [points |-> ops[i].points, texts |-> <<>>]))
         ELSE IF cells = <<>>
              THEN CellsFrom(ops, i + 1,
                             <<[points |-> <<>>, texts |-> <<ops[i]>>]>>)
              ELSE CellsFrom(ops, i + 1,
                             [cells EXCEPT ![Len(cells)].texts = Append(@, ops[i])])

CellsOf(page) == CellsFrom(page.ops, 1, <<>>)

\* the strings of a cell's text operations, in order
RECURSIVE LinesFrom(_, _)
LinesFrom(texts, i) ==
    IF i > Len(texts) THEN <<>>
    ELSE <<texts[i].text>> \o LinesFrom(texts, i + 1)

LinesOf(cell) == LinesFrom(cell.texts, 1)

\* the border rectangle of the cell (col, row): x = margin + col * cellWidth,
\* y = pageHeight - margin - (row + 1) * cellHeight, 50 mm x 71.75 mm
CellRect(col, row) ==
    LET x == 500 + col * 5000
        y == 29700 - 500 - (row + 1) * 7175
    IN  << <<x, y>>, <<x + 5000, y>>, <<x + 5000, y + 7175>>, <<x, y + 7175>> >>

FrontCell(i) == <<i % 4, i \div 4>>
BackCell(i) == <<3 - (i % 4), i \div 4>>

\* the cards of sheet s among n cards
CardsOnSheet(n, s) == {k \in 0..(n - 1) : k \div 16 = s}

\* C1: for a non-empty card sequence the pages drawn so far are front(0),
\* back(0), front(1), back(1), ... in this order, and the document written
\* has exactly 2 * ceil(n / 16) pages, each of them drawn on (no blank page
\* or sheet).
C1_PagesPaired ==
    Len(cards) > 0 =>
        /\ \A j \in 1..Len(pages) :
               \/ (pages[j] = BlankPage /\ j = 1 /\ pc = "front" /\ sheet_idx = 0)
               \/ /\ pages[j].side = (IF j % 2 = 1 THEN "front" ELSE "back")
                  /\ pages[j].sheet = (j - 1) \div 2
                  /\ pages[j].ops # <<>>
        /\ pc = "back" => Len(pages) = 2 * sheet_idx + 1
        /\ pc = "front" /\ sheet_idx > 0 => Len(pages) = 2 * sheet_idx
        /\ pc = "done" =>
               /\ Len(saved) = 2 * CeilSheets(Len(cards))
               /\ saved = pages
               /\ \A j \in 1..Len(saved) : saved[j] # BlankPage

C1_Witness ==
    /\ pc = "done"
    /\ Len(cards) = 33
    /\ Len(saved) = 6
    /\ saved[5].side = "front" /\ saved[5].sheet = 2
    /\ saved[6].side = "back" /\ saved[6].sheet = 2

\* C2 as stated: for an empty card sequence the written document has zero
\* sheets, zero pages and zero draw instructions.
C2_EmptyDeckNoPage ==
    (pc = "done" /\ cards = <<>>) =>
        /\ total_pages = 0
        /\ Len(saved) = 0
        /\ \A j \in 1..Len(saved) : saved[j].ops = <<>>

\* C3: in the written document every card k has the front and the back page
\* of sheet k div 16; the cells of a page are exactly the cards of its sheet,
\* one cell each: the cell of card k has the border of the front (back) cell
\* of index k mod 16 and reads as the card's side_a (side_b) text; nothing is
\* drawn for an index without a card.  With 17 cards the second sheet draws
\* card 16 only, at front cell (0,0) and back cell (3,0).
C3_CardsPlaced ==
    pc = "done" =>
        /\ \A k \in 0..(Len(cards) - 1) : 2 * (k \div 16) + 2 <= Len(saved)
        /\ \A j \in 1..Len(saved) :
               LET cells == CellsOf(saved[j])
                   s == (j - 1) \div 2
               IN  /\ Len(cells) = Cardinality(CardsOnSheet(Len(cards), s))
                   /\ \A i \in 0..(Len(cells) - 1) :
                          LET k == 16 * s + i
                              place == IF j % 2 = 1 THEN FrontCell(k % 16)
                                       ELSE BackCell(k % 16)
                              text == IF j % 2 = 1 THEN cards[k + 1].side_a
                                      ELSE cards[k + 1].side_b
                          IN  /\ cells[i + 1].points = CellRect(place[1], place[2])
                              /\ WordsAcross(LinesOf(cells[i + 1])) = WordRuns(text)
        /\ Len(cards) = 17 =>
               /\ Len(saved) = 4
               /\ Len(CellsOf(saved[3])) = 1
               /\ CellsOf(saved[3])[1].points = CellRect(0, 0)
               /\ Len(CellsOf(saved[4])) = 1
               /\ CellsOf(saved[4])[1].points = CellRect(3, 0)

C3_Witness ==
    /\ pc = "done"
    /\ Len(cards) = 17
    /\ Len(saved) = 4
    /\ Len(CellsOf(saved[3])) = 1
    /\ WordsAcross(LinesOf(CellsOf(saved[3])[1])) = WordRuns(cards[17].side_a)
    /\ Len(CellsOf(saved[4])) = 1
    /\ WordsAcross(LinesOf(CellsOf(saved[4])[1])) = WordRuns(cards[17].side_b)

\* the cell (col, row) a border sits in, from its bottom-left corner
CellOf(points) ==
    <<(points[1][1] - 500) \div 5000, (29700 - 500 - points[1][2]) \div 7175 - 1>>

\* C4: on every drawn page the border of in-sheet index i is that of cell
\* (i mod 4, i div 4) on a front and (3 - (i mod 4), i div 4) on a back; so a
\* front and its back give an index the same row and mirrored columns,
\* mirroring the back column gives the front column again, and on each page
\* distinct indices sit in distinct cells of the 4x4 grid.
C4_CellOfIndex ==
    \A j \in 1..Len(pages) :
        LET cells == CellsOf(pages[j])
            fronts == IF j > 1 THEN CellsOf(pages[j - 1]) ELSE <<>>
        IN  /\ Len(cells) <= 16
            /\ \A i \in 0..(Len(cells) - 1) :
                   LET c == CellOf(cells[i + 1].points)
                   IN  /\ cells[i + 1].points = CellRect(c[1], c[2])
                       /\ c \in (0..3) \X (0..3)
                       /\ pages[j].side = "front" => c = <<i % 4, i \div 4>>
                       /\ pages[j].side = "back" => c = <<3 - (i % 4), i \div 4>>
                       /\ \A h \in 0..(Len(cells) - 1) :
                              h # i => CellOf(cells[h + 1].points) # c
            /\ pages[j].side = "back" =>
                   /\ Len(fronts) = Len(cells)
                   /\ \A i \in 0..(Len(cells) - 1) :
                          LET f == CellOf(fronts[i + 1].points)
                              b == CellOf(cells[i + 1].points)
                          IN  /\ b[2] = f[2]
                              /\ b[1] = 3 - f[1]
                              /\ \A h \in 0..(Len(cells) - 1) :
                                     CellOf(fronts[h + 1].points) = <<b[1], b[2]>> =>
                                         CellOf(cells[h + 1].points) = <<f[1], f[2]>>

C4_Witness ==
    /\ pc = "done"
    /\ Len(pages) >= 2
    /\ Len(CellsOf(pages[1])) = 16
    /\ Len(CellsOf(pages[2])) = 16
    /\ CellOf(CellsOf(pages[1])[6].points) = <<1, 1>>
    /\ CellOf(CellsOf(pages[2])[6].points) = <<2, 1>>

\* the text of the card drawn in the cell of in-sheet index i of a page
TextOfCell(page, i) ==
    LET c == cards[16 * page.sheet + i + 1]
    IN  IF page.side = "front" THEN c.side_a ELSE c.side_b

\* C9 as stated: each occupied cell's text is wrapped with the card-cell
\* height, (297 - 2 * 5) / 4 = 71.75 mm, as the available span, that is at
\* maxChars = floor(71.75 / (18 * 0.5 * 0.3528)) = 22.
C9_SpanIsCellHeight ==
    \A j \in 1..Len(pages) :
        LET cells == CellsOf(pages[j])
        IN  \A i \in 0..(Len(cells) - 1) :
                LET lines == LinesOf(cells[i + 1])
                IN  /\ \A n \in 1..Len(cells[i + 1].texts) :
                           cells[i + 1].texts[n].size = 18
                    /\ lines = wrap_text(TextOfCell(pages[j], i), 18, 7175)
                    /\ \A n \in 1..Len(lines) :
                           \/ Len(lines[n]) <= FloorMaxChars(18, 7175)
                           \/ IsSingleWord(lines[n])

\* C9 amended: each occupied cell's text is wrapped with the card-cell height
\* less twice the 10 mm text margin, 71.75 - 20 = 51.75 mm, as the available
\* span, that is at maxChars = floor(51.75 / (18 * 0.5 * 0.3528)) = 16.
C9_SpanIsCellHeightLessMargins ==
    /\ FloorMaxChars(18, 5175) = 16
    /\ \A j \in 1..Len(pages) :
           LET cells == CellsOf(pages[j])
           IN  \A i \in 0..(Len(cells) - 1) :
                   LET lines == LinesOf(cells[i + 1])
                   IN  /\ \A n \in 1..Len(cells[i + 1].texts) :
                              cells[i + 1].texts[n].size = 18
                       /\ lines = wrap_text(TextOfCell(pages[j], i), 18, 5175)
                       /\ \A n \in 1..Len(lines) :
                              Len(lines[n]) <= 16 \/ IsSingleWord(lines[n])

\* a cell whose text fits in 22 characters but not in 16 is drawn in two lines
C9_Witness ==
    /\ pc = "done"
    /\ Len(cards) = 1
    /\ Len(cards[1].side_a) > 16
    /\ Len(cards[1].side_a) <= 22
    /\ Len(CellsOf(pages[1])) = 1
    /\ Len(CellsOf(pages[1])[1].texts) = 2

\* C10 as stated: every text line of a cell is anchored inside the cell's
\* border rectangle: cellX <= x <= cellX + cellWidth and
\* cellY <= y <= cellY + cellHeight, whatever the number of lines.
C10_AnchorsInsideCell ==
    \A j \in 1..Len(pages) :
        LET cells == CellsOf(pages[j])
        IN  \A i \in 1..Len(cells) :
                \A n \in 1..Len(cells[i].texts) :
                    LET corner == cells[i].points[1]
                        t == cells[i].texts[n]
                    IN  /\ corner[1] <= t.x /\ t.x <= corner[1] + 5000
                        /\ corner[2] <= t.y /\ t.y <= corner[2] + 7175

====
